---- MODULE Spec2Model ----
(***************************************************************************)
(* RealtimeService (src/src/config/env.ts): the real-time connection       *)
(* manager of the Hub application.  The manager runs on a single-threaded  *)
(* event loop, so every handler (a public method, a transport event        *)
(* listener, a channel message listener, a timer callback) is one atomic   *)
(* action.  The transport (the Ably client) and the callers are the        *)
(* environment: they choose which handler runs next.  The algorithms of    *)
(* src/src/algorithms (the Open Door filter, the friction score) are pure  *)
(* functions: each has a specification of its own further down, OpenDoorSpec*)
(* and FrictionSpec, which draws the inputs and applies the function.      *)
(***************************************************************************)
EXTENDS Integers, Sequences, FiniteSets, TLC

(* ---------------------------------------------------------------- bounds *)
\* Pending reconnect timers the model lets accumulate.
MaxPending == 2
\* Subscriptions (per event name) the model lets accumulate on one channel.
MaxSubs == 2
\* Largest event id the channel assigns.
MaxEventId == 2
HubIds == {"h1"}
Venues == {"v1", "v2"}
Listeners == {"l1", "l2"}
\* The delta batches (venue per delta) a sync response is drawn from.
Batches == {<<>>, <<"v1">>, <<"v1", "v2">>}

(* ------------------------------------------------------ program constants *)
\* RECONNECT_CONFIG
initialRetryDelay == 1000
backoffMultiplier == 2
maxBackoff == 30000
maxRetries == 5
pollingIntervalMs == 30000

\* lastEventId: string | null = null; currentHubId: string | null = null
NoEvent == 0
NoHub == "null"
\* pollingInterval: NodeJS.Timeout | null = null
NoTimer == 0

VARIABLES
  client,               \* this.client !== null
  channel,              \* this.channel: NoHub, or the hub whose channel it is
  connectionState,      \* this.connectionState
  lastEventId,          \* this.lastEventId
  retryCount,           \* this.retryCount
  currentHubId,         \* this.currentHubId
  messageQueue,         \* this.messageQueue
  pollingInterval,      \* this.pollingInterval: NoTimer, or a timer handle
  stateChangeCallbacks, \* this.stateChangeCallbacks, in insertion order
  \* the environment the manager acts on
  transportOpen,        \* the client was told to connect() and has not closed or failed
  subs,                 \* per hub channel: handlers subscribed per event name
  reconnectTimers,      \* how many setTimeout callbacks of handleDisconnect are pending
  intervals,            \* the live setInterval timers: [handle, period]
  serverSeq,            \* the latest event id the channel assigned and the client saw
  \* observation of the last handler that ran
  lastOp,               \* its name
  stateBefore,          \* this.connectionState when it started
  lastDelay,            \* delay of the reconnect timer it scheduled, 0 if none
  published,            \* lastEventId of the request_sync it published, NoEvent if none
  delivered,            \* <<listener, venue>> per callback invocation it made
  threw,                \* a state-change callback threw while it ran
  streak,               \* 'disconnected' events since the last 'connected' (saturating)
  disposed,             \* disconnect() ran and the caller has not called connect() since
  inbound,              \* the channel message it was given: [id, deltas], NoMessage if none
  \* the algorithms (src/src/algorithms), which share no state with the manager
  calc                  \* the evaluation in hand: its inputs and, once applied, its results

vars == <<client, channel, connectionState, lastEventId, retryCount, currentHubId,
          messageQueue, pollingInterval, stateChangeCallbacks, transportOpen, subs,
          reconnectTimers, intervals, serverSeq, lastOp, stateBefore, lastDelay,
          published,
          delivered, threw, streak, disposed, inbound, calc>>

(* --------------------------------------------------------------- helpers *)
Min(a, b) == IF a <= b THEN a ELSE b

RECURSIVE Pow(_, _)
Pow(b, e) == IF e = 0 THEN 1 ELSE b * Pow(b, e - 1)

\* Mutant: the multiplier applied once too often.
BackoffDelay_offByOne(count) ==
  Min(initialRetryDelay * Pow(backoffMultiplier, count + 1), maxBackoff)

\* Math.min(initialRetryDelay * Math.pow(backoffMultiplier, retryCount), maxBackoff)
BackoffDelay(count) ==
  Min(initialRetryDelay * Pow(backoffMultiplier, count), maxBackoff)

\* notifyStateChange(delta): the callbacks run in insertion order; the first one
\* that throws ends the forEach.  bad = <<listener, venue>> is the callback that
\* cannot apply that venue's delta (<<>> when every callback succeeds).
RECURSIVE NotifyFrom(_, _, _, _)
NotifyFrom(cbs, i, venue, bad) ==
  IF i > Len(cbs) THEN [calls |-> <<>>, threw |-> FALSE]
  ELSE IF bad = <<cbs[i], venue>>
       THEN [calls |-> << <<cbs[i], venue>> >>, threw |-> TRUE]
       ELSE LET rest == NotifyFrom(cbs, i + 1, venue, bad)
            IN [calls |-> << <<cbs[i], venue>> >> \o rest.calls, threw |-> rest.threw]

notifyStateChange(venue, bad) == NotifyFrom(stateChangeCallbacks, 1, venue, bad)

\* The for loop of handleSyncResponse over response.deltas.
RECURSIVE ProcessDeltas(_, _, _)
ProcessDeltas(deltas, i, bad) ==
  IF i > Len(deltas) THEN [calls |-> <<>>, threw |-> FALSE]
  ELSE LET one == notifyStateChange(deltas[i], bad)
       IN IF one.threw THEN one
          ELSE LET rest == ProcessDeltas(deltas, i + 1, bad)
               IN [calls |-> one.calls \o rest.calls, threw |-> rest.threw]

\* A channel invokes each of its subscribed handlers with the message, catching
\* what a handler throws: n subscriptions run the handler n times.
RECURSIVE Repeat(_, _)
Repeat(run, n) ==
  IF n = 0 THEN [calls |-> <<>>, threw |-> FALSE]
  ELSE LET rest == Repeat(run, n - 1)
       IN [calls |-> run.calls \o rest.calls, threw |-> run.threw \/ rest.threw]

BadChoices == {<<>>} \cup (Listeners \X Venues)

\* No channel message was given to the handler.
NoMessage == [id |-> NoEvent, deltas |-> <<>>]
\* No algorithm is being evaluated.
Idle == [fn |-> "idle"]

TypeOK ==
  /\ client \in BOOLEAN
  /\ channel \in HubIds \cup {NoHub}
  /\ connectionState \in {"disconnected", "connecting", "connected", "suspended"}
  /\ lastEventId \in 0..MaxEventId
  /\ retryCount \in Nat
  /\ currentHubId \in HubIds \cup {NoHub}
  /\ messageQueue \in Seq(Venues)
  /\ pollingInterval \in Nat
  /\ transportOpen \in BOOLEAN
  /\ subs \in [HubIds -> Nat]
  /\ reconnectTimers \in Nat
  /\ intervals \subseteq [handle : Nat, period : {pollingIntervalMs}]
  /\ serverSeq \in 0..MaxEventId

\* The manager as the constructor leaves it.
RtInit ==
  /\ client = FALSE
  /\ channel = NoHub
  /\ connectionState = "disconnected"
  /\ lastEventId = NoEvent
  /\ retryCount = 0
  /\ currentHubId = NoHub
  /\ messageQueue = <<>>
  /\ pollingInterval = NoTimer
  /\ stateChangeCallbacks = <<>>
  /\ transportOpen = FALSE
  /\ subs = [h \in HubIds |-> 0]
  /\ reconnectTimers = 0
  /\ intervals = {}
  /\ serverSeq = 0
  /\ lastOp = "new"
  /\ stateBefore = "disconnected"
  /\ lastDelay = 0
  /\ published = NoEvent
  /\ delivered = <<>>
  /\ threw = FALSE
  /\ streak = 0
  /\ disposed = FALSE
  /\ inbound = NoMessage

Init ==
  /\ RtInit
  /\ calc = Idle

\* What the handler that just ran did, for the properties to read.
Observe(op, delay, pub, run) ==
  /\ lastOp' = op
  /\ stateBefore' = connectionState
  /\ lastDelay' = delay
  /\ published' = pub
  /\ delivered' = run.calls
  /\ threw' = run.threw
  /\ inbound' = NoMessage
  /\ UNCHANGED calc

\* The same for a channel message handler, given the message msg.
ObserveMessage(op, msg, run) ==
  /\ lastOp' = op
  /\ stateBefore' = connectionState
  /\ lastDelay' = 0
  /\ published' = NoEvent
  /\ delivered' = run.calls
  /\ threw' = run.threw
  /\ inbound' = msg
  /\ UNCHANGED calc

NoCalls == [calls |-> <<>>, threw |-> FALSE]

(* ------------------------------------------------------ private methods *)
\* setInterval returns a handle no live timer has.
Handles == {t.handle : t \in intervals}
NewHandle == CHOOSE n \in 1..(Cardinality(intervals) + 1) : n \notin Handles

\* Mutant: the `if (this.pollingInterval) return` guard is missing.
startPollingFallback_noGuard ==
  /\ pollingInterval' = NewHandle
  /\ intervals' = intervals \cup {[handle |-> NewHandle, period |-> pollingIntervalMs]}

startPollingFallback ==
  IF pollingInterval # NoTimer
  THEN UNCHANGED <<pollingInterval, intervals>>
  ELSE /\ pollingInterval' = NewHandle
       /\ intervals' = intervals \cup {[handle |-> NewHandle, period |-> pollingIntervalMs]}

\* Mutant: the handle is forgotten but clearInterval is not called.
stopPolling_leak ==
  /\ pollingInterval' = NoTimer
  /\ UNCHANGED intervals

\* Mutant: the timer is left running and its handle kept.
stopPolling_noop == UNCHANGED <<pollingInterval, intervals>>

stopPolling ==
  IF pollingInterval # NoTimer
  THEN /\ intervals' = {t \in intervals : t.handle # pollingInterval}
       /\ pollingInterval' = NoTimer
  ELSE UNCHANGED <<pollingInterval, intervals>>

\* Mutant: the early return is taken when a cursor is held.
requestDeltaSync_unheld == NoEvent

\* requestDeltaSync, behind the guard of the 'connected' listener: the
\* lastEventId it publishes, NoEvent when it publishes nothing.
requestDeltaSync ==
  IF lastEventId # NoEvent /\ channel # NoHub THEN lastEventId ELSE NoEvent

\* Mutant: the ceiling is compared with > instead of >=.
handleDisconnect_lateCeiling ==
  IF retryCount > maxRetries
  THEN /\ startPollingFallback
       /\ UNCHANGED <<retryCount, reconnectTimers>>
       /\ lastDelay' = 0
  ELSE /\ retryCount' = retryCount + 1
       /\ reconnectTimers' = reconnectTimers + 1
       /\ lastDelay' = BackoffDelay(retryCount)
       /\ UNCHANGED <<pollingInterval, intervals>>

\* handleDisconnect: at the ceiling start polling, below it schedule connect().
handleDisconnect ==
  IF retryCount >= maxRetries
  THEN /\ startPollingFallback
       /\ UNCHANGED <<retryCount, reconnectTimers>>
       /\ lastDelay' = 0
  ELSE /\ retryCount' = retryCount + 1
       /\ reconnectTimers' = reconnectTimers + 1
       /\ lastDelay' = BackoffDelay(retryCount)
       /\ UNCHANGED <<pollingInterval, intervals>>

\* connect(hubId): initialize(), then open the transport and subscribe the
\* two handlers to the hub's channel.
connect(hubId) ==
  /\ client' = TRUE
  /\ currentHubId' = hubId
  /\ connectionState' = "connecting"
  /\ transportOpen' = TRUE
  /\ channel' = hubId
  /\ subs' = [subs EXCEPT ![hubId] = @ + 1]

(* ----------------------------------------------------------- operations *)
\* The caller's connect(hubId).
Connect(hubId) ==
  /\ subs[hubId] < MaxSubs
  /\ connect(hubId)
  /\ disposed' = FALSE
  /\ Observe("connect", 0, NoEvent, NoCalls)
  /\ UNCHANGED <<lastEventId, retryCount, messageQueue, pollingInterval,
                 stateChangeCallbacks, reconnectTimers, intervals, serverSeq, streak>>

\* Mutant: disconnect() also resets the retry counter.
Disconnect_resetsRetry ==
  /\ IF channel # NoHub
     THEN /\ subs' = [subs EXCEPT ![channel] = 0]
          /\ channel' = NoHub
     ELSE UNCHANGED <<subs, channel>>
  /\ transportOpen' = IF client THEN FALSE ELSE transportOpen
  /\ stopPolling
  /\ connectionState' = "disconnected"
  /\ retryCount' = 0
  /\ disposed' = TRUE
  /\ Observe("disconnect", 0, NoEvent, NoCalls)
  /\ UNCHANGED <<client, lastEventId, currentHubId, messageQueue,
                 stateChangeCallbacks, reconnectTimers, serverSeq, streak>>

\* The caller's disconnect().
Disconnect ==
  /\ IF channel # NoHub
     THEN /\ subs' = [subs EXCEPT ![channel] = 0]
          /\ channel' = NoHub
     ELSE UNCHANGED <<subs, channel>>
  /\ transportOpen' = IF client THEN FALSE ELSE transportOpen
  /\ stopPolling
  /\ connectionState' = "disconnected"
  /\ disposed' = TRUE
  /\ Observe("disconnect", 0, NoEvent, NoCalls)
  /\ UNCHANGED <<client, lastEventId, retryCount, currentHubId, messageQueue,
                 stateChangeCallbacks, reconnectTimers, serverSeq, streak>>

\* The transport's 'connected' event.
OnConnected ==
  /\ client /\ transportOpen
  /\ connectionState' = "connected"
  /\ retryCount' = 0
  /\ stopPolling
  /\ streak' = 0
  /\ Observe("connected", 0, requestDeltaSync, NoCalls)
  /\ UNCHANGED <<client, channel, lastEventId, currentHubId, messageQueue,
                 stateChangeCallbacks, transportOpen, subs, reconnectTimers,
                 serverSeq, disposed>>

\* The transport's 'disconnected' event.
OnDisconnected ==
  /\ client /\ transportOpen
  /\ retryCount < maxRetries => reconnectTimers < MaxPending
  /\ connectionState' = "disconnected"
  /\ handleDisconnect
  /\ streak' = Min(streak + 1, maxRetries + 1)
  /\ lastOp' = "disconnected"
  /\ stateBefore' = connectionState
  /\ published' = NoEvent
  /\ delivered' = <<>>
  /\ threw' = FALSE
  /\ inbound' = NoMessage
  /\ UNCHANGED <<client, channel, lastEventId, currentHubId, messageQueue,
                 stateChangeCallbacks, transportOpen, subs, serverSeq, disposed,
                 calc>>

\* The transport's 'suspended' event.
OnSuspended ==
  /\ client /\ transportOpen
  /\ connectionState' = "suspended"
  /\ startPollingFallback
  /\ Observe("suspended", 0, NoEvent, NoCalls)
  /\ UNCHANGED <<client, channel, lastEventId, retryCount, currentHubId,
                 messageQueue, stateChangeCallbacks, transportOpen, subs,
                 reconnectTimers, serverSeq, streak, disposed>>

\* The transport's 'failed' event (handleConnectionFailed); a failed transport
\* makes no further attempt until it is told to connect() again.
OnFailed ==
  /\ client /\ transportOpen
  /\ connectionState' = "disconnected"
  /\ startPollingFallback
  /\ transportOpen' = FALSE
  /\ Observe("failed", 0, NoEvent, NoCalls)
  /\ UNCHANGED <<client, channel, lastEventId, retryCount, currentHubId,
                 messageQueue, stateChangeCallbacks, subs, reconnectTimers,
                 serverSeq, streak, disposed>>

\* A reconnect timer of handleDisconnect expires.
ReconnectTimer ==
  /\ reconnectTimers > 0
  /\ reconnectTimers' = reconnectTimers - 1
  /\ IF currentHubId # NoHub /\ connectionState = "disconnected"
     THEN /\ subs[currentHubId] < MaxSubs
          /\ connect(currentHubId)
          /\ Observe("timerConnect", 0, NoEvent, NoCalls)
     ELSE /\ UNCHANGED <<client, currentHubId, connectionState, transportOpen,
                         channel, subs>>
          /\ Observe("timerSkip", 0, NoEvent, NoCalls)
  /\ UNCHANGED <<lastEventId, retryCount, messageQueue, pollingInterval,
                 stateChangeCallbacks, intervals, serverSeq, streak, disposed>>

\* The polling timer ticks: pollForUpdates() only logs.
PollTick ==
  /\ intervals # {}
  /\ Observe("poll", 0, NoEvent, NoCalls)
  /\ UNCHANGED <<client, channel, connectionState, lastEventId, retryCount,
                 currentHubId, messageQueue, pollingInterval, stateChangeCallbacks,
                 transportOpen, subs, reconnectTimers, intervals, serverSeq,
                 streak, disposed>>

InCallbacks(l) == \E i \in 1..Len(stateChangeCallbacks) : stateChangeCallbacks[i] = l

\* The failing callback is a registered one, given a delta of the message.
CanThrow(bad, venues) ==
  IF bad = <<>> THEN TRUE ELSE InCallbacks(bad[1]) /\ bad[2] \in venues

\* One run of the 'venue_state' handler: the cursor is set, then the callbacks run.
venueStateHandler(id, venue, bad) ==
  [cursor |-> id, run |-> notifyStateChange(venue, bad)]

\* A 'venue_state' message with event id `id` arrives on hub's channel.
OnVenueState(hub, id, venue, bad) ==
  /\ transportOpen /\ subs[hub] > 0
  /\ CanThrow(bad, {venue})
  /\ id > serverSeq
  /\ serverSeq' = id
  /\ LET h == venueStateHandler(id, venue, bad)
     IN /\ lastEventId' = h.cursor
        /\ ObserveMessage("venue_state", [id |-> id, deltas |-> <<venue>>],
                          Repeat(h.run, subs[hub]))
  /\ UNCHANGED <<client, channel, connectionState, retryCount, currentHubId,
                 messageQueue, pollingInterval, stateChangeCallbacks, transportOpen,
                 subs, reconnectTimers, intervals, streak, disposed>>

\* handleSyncResponse(response): the cursor is set, then the deltas are processed.
handleSyncResponse(responseLastEventId, deltas, bad) ==
  [cursor |-> responseLastEventId, run |-> ProcessDeltas(deltas, 1, bad)]

\* A 'sync' message arrives on hub's channel.
OnSync(hub, responseLastEventId, deltas, bad) ==
  /\ transportOpen /\ subs[hub] > 0
  /\ CanThrow(bad, {deltas[i] : i \in 1..Len(deltas)})
  /\ serverSeq' = IF responseLastEventId > serverSeq
                  THEN responseLastEventId ELSE serverSeq
  /\ LET h == handleSyncResponse(responseLastEventId, deltas, bad)
     IN /\ lastEventId' = h.cursor
        /\ ObserveMessage("sync", [id |-> responseLastEventId, deltas |-> deltas],
                          Repeat(h.run, subs[hub]))
  /\ UNCHANGED <<client, channel, connectionState, retryCount, currentHubId,
                 messageQueue, pollingInterval, stateChangeCallbacks, transportOpen,
                 subs, reconnectTimers, intervals, streak, disposed>>

\* onStateChange(callback): Set.add keeps one entry per callback.
OnStateChange(l) ==
  /\ stateChangeCallbacks' =
       IF InCallbacks(l) THEN stateChangeCallbacks ELSE Append(stateChangeCallbacks, l)
  /\ Observe("onStateChange", 0, NoEvent, NoCalls)
  /\ UNCHANGED <<client, channel, connectionState, lastEventId, retryCount,
                 currentHubId, messageQueue, pollingInterval, transportOpen, subs,
                 reconnectTimers, intervals, serverSeq, streak, disposed>>

\* The function onStateChange returned: Set.delete.
Unsubscribe(l) ==
  /\ stateChangeCallbacks' = SelectSeq(stateChangeCallbacks, LAMBDA x : x # l)
  /\ Observe("unsubscribe", 0, NoEvent, NoCalls)
  /\ UNCHANGED <<client, channel, connectionState, lastEventId, retryCount,
                 currentHubId, messageQueue, pollingInterval, transportOpen, subs,
                 reconnectTimers, intervals, serverSeq, streak, disposed>>

Next ==
  \/ \E h \in HubIds : Connect(h)
  \/ Disconnect
  \/ OnConnected
  \/ OnDisconnected
  \/ OnSuspended
  \/ OnFailed
  \/ ReconnectTimer
  \/ PollTick
  \/ \E h \in HubIds, id \in 1..MaxEventId, v \in Venues, bad \in BadChoices :
       OnVenueState(h, id, v, bad)
  \/ \E h \in HubIds, id \in 1..MaxEventId, ds \in Batches,
        bad \in BadChoices : OnSync(h, id, ds, bad)
  \/ \E l \in Listeners : OnStateChange(l)
  \/ \E l \in Listeners : Unsubscribe(l)

Spec == Init /\ [][Next]_vars

(* ================================================================ claims *)

\* C1 (stated as claimed; the code violates it): after disconnect(), and until the
\* caller calls connect() again, no timer of the manager is pending (neither a
\* reconnect timer nor a polling timer) and the manager makes no connection
\* attempt: the transport stays closed and the state DISCONNECTED.
C1_NoTimerAfterDisconnect ==
  disposed =>
    /\ reconnectTimers = 0
    /\ intervals = {}
    /\ ~transportOpen
    /\ connectionState = "disconnected"

\* C2 (stated as claimed; the code violates it): in every reachable state at most
\* one reconnect timer is pending.
C2_OneReconnectTimer == reconnectTimers <= 1

\* The backoff sequence the specification lists, in milliseconds.
ExpectedDelays == <<1000, 2000, 4000, 8000, 16000, 30000>>

\* C3 (the claim as stated): the k-th consecutive 'disconnected' event, k = 1..6,
\* schedules a reconnect timer after 1s, 2s, 4s, 8s, 16s, 30s.
C3_BackoffSequenceOfSix ==
  lastOp = "disconnected" => lastDelay = ExpectedDelays[streak]

\* C3 (amended): the k-th consecutive 'disconnected' event schedules a reconnect
\* timer after 1s, 2s, 4s, 8s, 16s for k = 1..5; the 6th and later ones schedule
\* no reconnect timer, so the 30s cap is never a backoff delay.
C3_BackoffSequenceOfFive ==
  lastOp = "disconnected" =>
    IF streak <= 5 THEN lastDelay = ExpectedDelays[streak] ELSE lastDelay = 0

\* C3 witness: the 5th consecutive 'disconnected' event scheduled the 16s timer.
C3_Witness == lastOp = "disconnected" /\ streak = 5 /\ lastDelay = 16000

\* C4: once 5 consecutive 'disconnected' events have been handled the retry
\* counter stays at the ceiling; a further 'disconnected' event leaves the polling
\* timer (period 30s) running and schedules no reconnect timer, and no handler
\* schedules one until a 'connected' event resets the counter.
C4_RetryCeiling ==
  /\ streak >= 5 => retryCount = 5
  /\ streak > 5 => lastDelay = 0
  /\ (streak > 5 /\ lastOp = "disconnected") =>
       \E t \in intervals : t.handle = pollingInterval /\ t.period = 30000

\* C4 witness: the 6th consecutive 'disconnected' event started the polling.
C4_Witness ==
  /\ lastOp = "disconnected" /\ streak = 6
  /\ pollingInterval # NoTimer /\ reconnectTimers = 0

\* C5: after the 'connected' handler the state is CONNECTED, the retry counter is
\* 0, no polling timer runs, and a request_sync carrying lastEventId was published
\* if and only if a cursor is held.
C5_Connected ==
  lastOp = "connected" =>
    /\ connectionState = "connected"
    /\ retryCount = 0
    /\ pollingInterval = NoTimer /\ intervals = {}
    /\ lastEventId # NoEvent => published = lastEventId
    /\ lastEventId = NoEvent => published = NoEvent

\* C5 witness: 'connected' arrives while SUSPENDED with a cursor held.
C5_Witness ==
  /\ lastOp = "connected" /\ stateBefore = "suspended"
  /\ lastEventId # NoEvent /\ published = lastEventId

\* C6 (stated as claimed; the code violates it): after any sequence of
\* venue_state messages and sync responses the cursor is the latest event id seen,
\* so it never moves backwards (an older sync response leaves it unchanged).
C6_CursorNeverMovesBack == lastEventId = serverSeq

\* C7 (stated as claimed; the code violates it): a handler in which applying a
\* delta fails leaves the cursor as it was.
C7_CursorOnlyOnSuccess == [][threw' => lastEventId' = lastEventId]_vars

\* C9: after disconnect(), from whatever connection state, the channel is
\* unsubscribed and released, the transport is closed, no polling timer runs and
\* the state is DISCONNECTED.
C9_Disconnect ==
  lastOp = "disconnect" =>
    /\ channel = NoHub
    /\ currentHubId # NoHub => subs[currentHubId] = 0
    /\ ~transportOpen
    /\ pollingInterval = NoTimer /\ intervals = {}
    /\ connectionState = "disconnected"

\* C9 witness: disconnect() called while SUSPENDED.
C9_Witness == lastOp = "disconnect" /\ stateBefore = "suspended" /\ client

\* C10: at most one polling timer is live, and it is the one the manager holds
\* the handle of, so that one stopPolling leaves none.
C10_OnePollingTimer ==
  /\ Cardinality(intervals) <= 1
  /\ \A t \in intervals : t.handle = pollingInterval
  /\ pollingInterval # NoTimer => intervals # {}

\* C10 witness: 'failed' after 'suspended' starts polling while it is running.
C10_Witness ==
  /\ lastOp = "failed" /\ stateBefore = "suspended"
  /\ Cardinality(intervals) = 1

\* The venues of the deltas listener l was called with by the last handler, in
\* the order of the calls.
ReceivedBy(l) ==
  LET mine == SelectSeq(delivered, LAMBDA c : c[1] = l)
  IN [i \in 1..Len(mine) |-> mine[i][2]]

\* C11 (stated as claimed; the code violates it): when a sync response has been
\* handled, every registered listener was given the deltas of the batch, each
\* once and in the order of the batch, and the cursor equals the response's
\* lastEventId.
C11_SyncAppliedInOrder ==
  lastOp = "sync" =>
    /\ lastEventId = inbound.id
    /\ \A l \in Listeners : InCallbacks(l) => ReceivedBy(l) = inbound.deltas

(***************************************************************************)
(* The Open Door filter: the client's checkOpenDoor                        *)
(* (src/src/algorithms/openDoorFilter.ts) and the server's                 *)
(* get_open_door_venues (backend/supabase/migrations/20240101_init.sql),   *)
(* both applied to the same venue data and the same hub rules.             *)
(***************************************************************************)
\* The manager's variables, which no algorithm touches.
rtVars == <<client, channel, connectionState, lastEventId, retryCount, currentHubId,
            messageQueue, pollingInterval, stateChangeCallbacks, transportOpen, subs,
            reconnectTimers, intervals, serverSeq, lastOp, stateBefore, lastDelay,
            published, delivered, threw, streak, disposed, inbound>>

\* frictionScore: number | null, friction_score REAL NULL
NullScore == -1
\* failedReason: OpenDoorFailReason | null
NoReason == "null"
\* StateConfidence, state_confidence_level
Confidences == {"live", "recent", "stale", "historical"}

\* The venue data and the hub rules the filter is evaluated on: values below, at
\* and above each threshold.
WaitTimes == {0, 14, 15, 16}
FrictionScores == {NullScore, 0, 79, 80, 81}
VenueInputs ==
  [waitTime : WaitTimes, frictionScore : FrictionScores,
   isPrivateEvent : BOOLEAN, stateConfidence : Confidences]
RuleInputs ==
  [maxWaitMinutes : {15, 16}, maxFriction : {80, 81},
   allowedConfidence : {{"live", "recent"}, {"live"}, {"live", "recent", "stale"}}]

DEFAULT_FILTER_RULES ==
  [maxWaitMinutes |-> 15, maxFriction |-> 80, allowedConfidence |-> {"live", "recent"}]

\* allowedConfidence.includes(confidence)
isOpenDoorEligible(confidence, allowedConfidence) == confidence \in allowedConfidence

\* Mutant: the private-event check made before the confidence check.
checkOpenDoor_privateFirst(venue, rules) ==
  IF venue.frictionScore = NullScore
  THEN [isOpen |-> FALSE, failedReason |-> "unknown_state"]
  ELSE IF venue.isPrivateEvent
  THEN [isOpen |-> FALSE, failedReason |-> "private_event"]
  ELSE IF ~isOpenDoorEligible(venue.stateConfidence, rules.allowedConfidence)
  THEN [isOpen |-> FALSE, failedReason |-> "stale_data"]
  ELSE IF venue.waitTime >= rules.maxWaitMinutes
  THEN [isOpen |-> FALSE, failedReason |-> "wait_time_exceeded"]
  ELSE IF venue.frictionScore >= rules.maxFriction
  THEN [isOpen |-> FALSE, failedReason |-> "friction_exceeded"]
  ELSE [isOpen |-> TRUE, failedReason |-> NoReason]

\* Mutant: the thresholds compared with > instead of >=.
checkOpenDoor_inclusive(venue, rules) ==
  IF venue.frictionScore = NullScore
  THEN [isOpen |-> FALSE, failedReason |-> "unknown_state"]
  ELSE IF ~isOpenDoorEligible(venue.stateConfidence, rules.allowedConfidence)
  THEN [isOpen |-> FALSE, failedReason |-> "stale_data"]
  ELSE IF venue.isPrivateEvent
  THEN [isOpen |-> FALSE, failedReason |-> "private_event"]
  ELSE IF venue.waitTime > rules.maxWaitMinutes
  THEN [isOpen |-> FALSE, failedReason |-> "wait_time_exceeded"]
  ELSE IF venue.frictionScore > rules.maxFriction
  THEN [isOpen |-> FALSE, failedReason |-> "friction_exceeded"]
  ELSE [isOpen |-> TRUE, failedReason |-> NoReason]

checkOpenDoor(venue, rules) ==
  IF venue.frictionScore = NullScore
  THEN [isOpen |-> FALSE, failedReason |-> "unknown_state"]
  ELSE IF ~isOpenDoorEligible(venue.stateConfidence, rules.allowedConfidence)
  THEN [isOpen |-> FALSE, failedReason |-> "stale_data"]
  ELSE IF venue.isPrivateEvent
  THEN [isOpen |-> FALSE, failedReason |-> "private_event"]
  ELSE IF venue.waitTime >= rules.maxWaitMinutes
  THEN [isOpen |-> FALSE, failedReason |-> "wait_time_exceeded"]
  ELSE IF venue.frictionScore >= rules.maxFriction
  THEN [isOpen |-> FALSE, failedReason |-> "friction_exceeded"]
  ELSE [isOpen |-> TRUE, failedReason |-> NoReason]

\* get_open_door_venues(p_hub_id) for a hub with the rows `venues`, the rules
\* filter_rules (v_max_wait, v_max_friction; allowed_confidence is not read) and
\* the friction score friction_score (v_friction_score): the RETURN QUERY.
get_open_door_venues(venues, filter_rules, friction_score) ==
  {v \in venues :
     /\ v.waitTime < filter_rules.maxWaitMinutes
     /\ (friction_score = NullScore \/ friction_score < filter_rules.maxFriction)
     /\ v.isPrivateEvent = FALSE
     /\ v.stateConfidence \in {"live", "recent"}}

\* checkOpenDoor has not been applied yet; the query has not been run yet.
Unevaluated == [isOpen |-> FALSE, failedReason |-> "unevaluated"]
NotQueried == [ran |-> FALSE, rows |-> {}]

\* Any venue of a hub with any rules; the hub's friction score is the venue's.
OpenDoorInit ==
  /\ RtInit
  /\ calc \in [fn : {"openDoor"}, venue : VenueInputs, rules : RuleInputs,
                client : {Unevaluated}, server : {NotQueried}]

\* The client applies checkOpenDoor(venue, rules).
CheckOpenDoor ==
  /\ calc.client = Unevaluated
  /\ calc' = [calc EXCEPT !.client = checkOpenDoor(calc.venue, calc.rules)]
  /\ UNCHANGED rtVars

\* The server runs get_open_door_venues on the hub that holds the venue.
GetOpenDoorVenues ==
  /\ ~calc.server.ran
  /\ calc' = [calc EXCEPT !.server =
                [ran |-> TRUE,
                 rows |-> get_open_door_venues({calc.venue}, calc.rules,
                                               calc.venue.frictionScore)]]
  /\ UNCHANGED rtVars

OpenDoorNext == CheckOpenDoor \/ GetOpenDoorVenues

OpenDoorSpec == OpenDoorInit /\ [][OpenDoorNext]_vars

\* C12 (stated as claimed; the code violates it): once both sides have evaluated
\* the same venue under the same rules, the server's query returns the venue if
\* and only if the client's checkOpenDoor returned isOpen = true.
C12_ServerClientParity ==
  (calc.client # Unevaluated /\ calc.server.ran) =>
    ((calc.venue \in calc.server.rows) <=> calc.client.isOpen)

\* C13 (stated as claimed; the code violates it): every row the server's query
\* returns has an available friction score below maxFriction, a wait below
\* maxWaitMinutes, is not a private event and has a confidence tier in the
\* allowed set.
C13_OnlyQualifyingReturned ==
  calc.server.ran =>
    \A v \in calc.server.rows :
      /\ v.frictionScore # NullScore
      /\ v.frictionScore < calc.rules.maxFriction
      /\ v.waitTime < calc.rules.maxWaitMinutes
      /\ ~v.isPrivateEvent
      /\ v.stateConfidence \in calc.rules.allowedConfidence

\* The fixed order of the checks, and the checks a venue fails under the rules.
Priority ==
  <<"unknown_state", "stale_data", "private_event", "wait_time_exceeded",
    "friction_exceeded">>
FailedChecks(venue, rules) ==
  {reason \in {Priority[i] : i \in 1..Len(Priority)} :
     \/ reason = "unknown_state" /\ venue.frictionScore = NullScore
     \/ reason = "stale_data" /\ venue.stateConfidence \notin rules.allowedConfidence
     \/ reason = "private_event" /\ venue.isPrivateEvent
     \/ reason = "wait_time_exceeded" /\ venue.waitTime >= rules.maxWaitMinutes
     \/ reason = "friction_exceeded" /\ venue.frictionScore # NullScore
                                      /\ venue.frictionScore >= rules.maxFriction}
Earliest(reasons) ==
  Priority[CHOOSE i \in 1..Len(Priority) :
             /\ Priority[i] \in reasons
             /\ \A j \in 1..(i - 1) : Priority[j] \notin reasons]

\* C14: when the venue fails one or more checks, the failedReason checkOpenDoor
\* reports is the earliest failing check in the order unknown_state, stale_data,
\* private_event, wait_time_exceeded, friction_exceeded.
C14_PriorityOrder ==
  (calc.client # Unevaluated /\ FailedChecks(calc.venue, calc.rules) # {}) =>
    calc.client.failedReason = Earliest(FailedChecks(calc.venue, calc.rules))

\* C14's case: a venue with a known friction score fails the four other checks
\* at once and stale_data is reported.
C14_Witness ==
  /\ calc.client # Unevaluated
  /\ Cardinality(FailedChecks(calc.venue, calc.rules)) = 4
  /\ calc.venue.frictionScore # NullScore
  /\ calc.client.failedReason = "stale_data"

\* C15: checkOpenDoor returns isOpen = true exactly when the friction score is
\* available, the tier is allowed, the venue is not a private event, and wait
\* and friction are strictly below their thresholds; failedReason is null
\* exactly when isOpen is true and is otherwise one of the five reasons.
C15_OpenIffAllHold ==
  calc.client # Unevaluated =>
    /\ calc.client.isOpen <=>
         /\ calc.venue.frictionScore # NullScore
         /\ calc.venue.stateConfidence \in calc.rules.allowedConfidence
         /\ ~calc.venue.isPrivateEvent
         /\ calc.venue.waitTime < calc.rules.maxWaitMinutes
         /\ calc.venue.frictionScore < calc.rules.maxFriction
    /\ (calc.client.failedReason = NoReason) <=> calc.client.isOpen
    /\ ~calc.client.isOpen =>
         calc.client.failedReason \in {Priority[i] : i \in 1..Len(Priority)}

\* C15's case: the wait equals the threshold, every other condition holds, and
\* the venue fails.
C15_Witness ==
  /\ calc.client # Unevaluated
  /\ FailedChecks(calc.venue, calc.rules) = {"wait_time_exceeded"}
  /\ calc.venue.waitTime = calc.rules.maxWaitMinutes
  /\ ~calc.client.isOpen

(***************************************************************************)
(* The friction score (src/src/algorithms/frictionScore.ts, the 4-factor   *)
(* version).  A JavaScript number is modelled as a fraction num/den with   *)
(* den >= 0: den > 0 is the finite number num/den, computed exactly, and   *)
(* den = 0 is a non-finite one (num > 0 Infinity, num < 0 -Infinity,       *)
(* num = 0 NaN).  `number | null` is <<>> for null and <<x>> for x.        *)
(***************************************************************************)
Null == <<>>
Some(x) == <<x>>

Frac(n, d) == [num |-> n, den |-> d]
IsNaN(x) == x.den = 0 /\ x.num = 0
IsFinite(x) == x.den > 0
RECURSIVE GCD(_, _)
GCD(a, b) == IF b = 0 THEN a ELSE GCD(b, a % b)
Abs(a) == IF a < 0 THEN -a ELSE a
\* The common factor of two denominators (1 when both are 0).
Common(a, b) == IF a = 0 /\ b = 0 THEN 1 ELSE GCD(a, b)
\* a <= b and a = b for numbers that are not NaN
Leq(a, b) ==
  LET g == Common(a.den, b.den)
  IN a.num * (b.den \div g) <= b.num * (a.den \div g)
Eq(a, b) ==
  LET g == Common(a.den, b.den)
  IN a.num * (b.den \div g) = b.num * (a.den \div g)
Sign(a) == IF a > 0 THEN 1 ELSE IF a < 0 THEN -1 ELSE 0

\* a / b for finite integers a, b
Div(a, b) ==
  IF b > 0 THEN Frac(a, b) ELSE IF b < 0 THEN Frac(-a, -b) ELSE Frac(Sign(a), 0)
\* The same number in lowest terms.
Lowest(x) ==
  IF x.den = 0 THEN Frac(Sign(x.num), 0)
  ELSE LET g == GCD(Abs(x.num), x.den) IN Frac(x.num \div g, x.den \div g)
\* x * k and x + y
Times(x, k) ==
  LET a == Lowest(Frac(x.num, k.den))
      b == Lowest(Frac(k.num, x.den))
  IN Lowest(Frac(a.num * b.num, a.den * b.den))
Plus(x, y) ==
  LET g == Common(x.den, y.den)
  IN Lowest(Frac(x.num * (y.den \div g) + y.num * (x.den \div g),
                 (x.den \div g) * y.den))

\* Math.max(0, Math.min(100, x)); NaN stays NaN
Clamp(x) ==
  IF IsNaN(x) THEN x
  ELSE IF Leq(Frac(100, 1), x) THEN Frac(100, 1)
  ELSE IF Leq(x, Frac(0, 1)) THEN Frac(0, 1)
  ELSE x

\* Math.round(x * 10) / 10 for x >= 0: halves are rounded up
RoundToTenth(x) ==
  IF x.den = 0 THEN x ELSE Frac((20 * x.num + x.den) \div (2 * x.den), 10)

\* The weights, in hundredths.
WEIGHTS == [uber |-> 15, traffic |-> 25, foot |-> 40, garage |-> 20]
DEGRADED_WEIGHTS == [uber |-> 20, traffic |-> 35, foot |-> 5, garage |-> 40]

\* Mutant: the surge is scaled from 0 instead of from 1.0.
normalizeUberSurge_fromZero(surge) == Clamp(Times(Div(surge, 4), Frac(100, 1)))

normalizeUberSurge(surge) == Clamp(Times(Div(surge - 1, 4), Frac(100, 1)))

\* Mutant: the `historicalMax <= 0` guard is missing.
normalizeTrafficFlow_noGuard(flow, historicalMax) ==
  Clamp(Times(Div(flow, historicalMax), Frac(100, 1)))

normalizeTrafficFlow(flow, historicalMax) ==
  IF historicalMax <= 0 THEN Frac(0, 1)
  ELSE Clamp(Times(Div(flow, historicalMax), Frac(100, 1)))

normalizeFootTraffic(count, historicalMax) ==
  IF historicalMax <= 0 THEN Frac(0, 1)
  ELSE Clamp(Times(Div(count, historicalMax), Frac(100, 1)))

normalizeGarageOccupancy(occupancy) == Clamp(Frac(occupancy, 1))

\* Mutant: the standard weights are used whatever is missing.
selectWeights_standardOnly(inputs) == WEIGHTS

\* selectWeights(inputs: NormalizedInputs)
selectWeights(inputs) == IF inputs.foot = Null THEN DEGRADED_WEIGHTS ELSE WEIGHTS

\* x ?? 0
OrZero(x) == IF x = Null THEN Frac(0, 1) ELSE x[1]

\* The `normalized` object of calculateFrictionScore.
Normalized(inputs, trafficHistoricalMax, footHistoricalMax) ==
  [uber |-> IF inputs.uberSurge # Null
            THEN Some(normalizeUberSurge(inputs.uberSurge[1])) ELSE Null,
   traffic |-> IF inputs.trafficFlow # Null
               THEN Some(normalizeTrafficFlow(inputs.trafficFlow[1], trafficHistoricalMax))
               ELSE Null,
   foot |-> IF inputs.footTrafficCount # Null
            THEN Some(normalizeFootTraffic(inputs.footTrafficCount[1], footHistoricalMax))
            ELSE Null,
   garage |-> IF inputs.garageOccupancy # Null
              THEN Some(normalizeGarageOccupancy(inputs.garageOccupancy[1])) ELSE Null]

\* Mutant: a source is counted when its normalized value is truthy.
ActiveSourceCount_truthy(normalized) ==
  Cardinality({k \in {"uber", "traffic", "foot", "garage"} :
                 normalized[k] # Null /\ ~Eq(normalized[k][1], Frac(0, 1))})

\* [normalized.uber !== null, ...].filter(Boolean).length
ActiveSourceCount(normalized) ==
  Cardinality({k \in {"uber", "traffic", "foot", "garage"} : normalized[k] # Null})

\* Mutant: degraded as soon as any source is missing.
IsDegraded_anyMissing(inputs) ==
  \/ inputs.uberSurge = Null
  \/ inputs.trafficFlow = Null
  \/ inputs.footTrafficCount = Null
  \/ inputs.garageOccupancy = Null

\* const isDegraded = inputs.footTrafficCount === null
IsDegraded(inputs) == inputs.footTrafficCount = Null

\* The weight w, in hundredths, as a number.
Weight(w) == Frac(w, 100)

calculateFrictionScore(inputs, trafficHistoricalMax, footHistoricalMax) ==
  LET normalized == Normalized(inputs, trafficHistoricalMax, footHistoricalMax)
      activeSourceCount == ActiveSourceCount(normalized)
      weights == selectWeights(normalized)
      frictionScore ==
        Plus(Plus(Plus(Times(OrZero(normalized.uber), Weight(weights.uber)),
                       Times(OrZero(normalized.traffic), Weight(weights.traffic))),
                  Times(OrZero(normalized.foot), Weight(weights.foot))),
             Times(OrZero(normalized.garage), Weight(weights.garage)))
      rawFactors ==
        [uber |-> OrZero(normalized.uber), traffic |-> OrZero(normalized.traffic),
         foot |-> OrZero(normalized.foot), garage |-> OrZero(normalized.garage)]
  IN IF activeSourceCount = 0
     THEN [score |-> Null, rawFactors |-> Null, isDegraded |-> FALSE,
           activeSourceCount |-> 0]
     ELSE [score |-> Some(RoundToTenth(frictionScore)), rawFactors |-> Some(rawFactors),
           isDegraded |-> IsDegraded(inputs), activeSourceCount |-> activeSourceCount]

\* The raw readings the score is evaluated on: below, inside and above each range.
SurgeReadings == {0, 1, 2, 3, 5, 6}
FlowReadings == {-5, 0, 1, 50, 150}
OccupancyReadings == {-10, 50, 100, 130}
HistoricalMaxima == {-1, 0, 3, 100}
Nullable(S) == {Null} \cup {Some(x) : x \in S}
FrictionInputs ==
  [uberSurge : Nullable(SurgeReadings), trafficFlow : Nullable(FlowReadings),
   footTrafficCount : Nullable(FlowReadings),
   garageOccupancy : Nullable(OccupancyReadings)]

FrictionInit ==
  /\ RtInit
  /\ calc \in [fn : {"friction"}, inputs : FrictionInputs,
                trafficHistoricalMax : HistoricalMaxima,
                footHistoricalMax : HistoricalMaxima,
                normalized : {Null}, result : {Null}]

\* The four normalizers are applied to the readings that are present.
Normalize ==
  /\ calc.normalized = Null
  /\ calc' = [calc EXCEPT !.normalized =
                Some(Normalized(calc.inputs, calc.trafficHistoricalMax,
                                calc.footHistoricalMax))]
  /\ UNCHANGED rtVars

CalculateFrictionScore ==
  /\ calc.result = Null
  /\ calc' = [calc EXCEPT !.result =
                Some(calculateFrictionScore(calc.inputs, calc.trafficHistoricalMax,
                                            calc.footHistoricalMax))]
  /\ UNCHANGED rtVars

FrictionNext == Normalize \/ CalculateFrictionScore

FrictionSpec == FrictionInit /\ [][FrictionNext]_vars

\* All four inputs are null.
Blackout ==
  /\ calc.inputs.uberSurge = Null
  /\ calc.inputs.trafficFlow = Null
  /\ calc.inputs.footTrafficCount = Null
  /\ calc.inputs.garageOccupancy = Null

\* C16: in the result of calculateFrictionScore, score is null if and only if
\* activeSourceCount is 0, which is exactly when all four inputs are null, and
\* rawFactors is null if and only if score is null.
C16_NullIffBlackout ==
  calc.result # Null =>
    LET r == calc.result[1]
    IN /\ (r.score = Null) <=> (r.activeSourceCount = 0)
       /\ (r.activeSourceCount = 0) <=> Blackout
       /\ (r.rawFactors = Null) <=> (r.score = Null)

\* C16's case: the result of a total blackout.
C16_Witness ==
  /\ calc.result # Null
  /\ Blackout
  /\ calc.result[1].score = Null

\* The factor a normalized input contributes: 0 when it is null.
Factor(n) == IF n = Null THEN Frac(0, 1) ELSE n[1]
\* The normalized inputs of the evaluation in hand.
Factors == Normalized(calc.inputs, calc.trafficHistoricalMax, calc.footHistoricalMax)
\* uber * wu + traffic * wt + foot * wf + garage * wg, the weights in hundredths
WeightedSum(n, wu, wt, wf, wg) ==
  Plus(Plus(Plus(Times(Factor(n.uber), Frac(wu, 100)),
                 Times(Factor(n.traffic), Frac(wt, 100))),
            Times(Factor(n.foot), Frac(wf, 100))),
       Times(Factor(n.garage), Frac(wg, 100)))
\* s is a number of tenths and no other number of tenths is nearer to x
NearestTenth(s, x) ==
  /\ IsFinite(s) /\ IsFinite(x)
  /\ (10 * s.num) % s.den = 0
  /\ 2 * Abs(10 * s.num * x.den - 10 * x.num * s.den) <= x.den * s.den
Is(n, value) == n # Null /\ Eq(n[1], Frac(value, 1))

C18_ScoreInRange ==
  calc.result # Null =>
    LET score == calc.result[1].score
    IN IF Blackout THEN score = Null
       ELSE /\ score # Null
            /\ IsFinite(score[1])
            /\ Leq(Frac(0, 1), score[1])
            /\ Leq(score[1], Frac(100, 1))

\* C18's case: a zero reading over a historical maximum of 0, a negative reading
\* over a negative maximum, an occupancy above 100, and a score was returned.
C18_Witness ==
  /\ calc.result # Null
  /\ calc.inputs.trafficFlow = Some(0) /\ calc.trafficHistoricalMax = 0
  /\ calc.inputs.footTrafficCount = Some(-5) /\ calc.footHistoricalMax < 0
  /\ calc.inputs.garageOccupancy = Some(130)
  /\ calc.result[1].score # Null

\* C19: when at least one source is present, isDegraded is true exactly when the
\* pedestrian input is null; in a total blackout isDegraded is false.
C19_DegradedFlag ==
  calc.result # Null =>
    LET r == calc.result[1]
    IN /\ r.activeSourceCount >= 1 =>
            (r.isDegraded <=> calc.inputs.footTrafficCount = Null)
       /\ Blackout => ~r.isDegraded

\* C19's case: the pedestrian input is the only one missing and the result is
\* degraded.
C19_Witness ==
  /\ calc.result # Null
  /\ calc.inputs.footTrafficCount = Null
  /\ calc.result[1].activeSourceCount = 3
  /\ calc.result[1].isDegraded

\* n is a finite number within [0, 100]
InRange(n) == IsFinite(n) /\ Leq(Frac(0, 1), n) /\ Leq(n, Frac(100, 1))
\* n is value / historicalMax x 100 clamped to [0, 100], and 0 when
\* historicalMax <= 0
IsRatio(n, value, historicalMax) ==
  IF historicalMax <= 0 \/ value <= 0 THEN Eq(n, Frac(0, 1))
  ELSE IF value >= historicalMax THEN Eq(n, Frac(100, 1))
  ELSE n.num * historicalMax = value * 100 * n.den
\* n is (surge - 1.0) / 4.0 x 100 clamped to [0, 100]
IsSurge(n, surge) ==
  IF surge <= 1 THEN Eq(n, Frac(0, 1))
  ELSE IF surge >= 5 THEN Eq(n, Frac(100, 1))
  ELSE n.num * 4 = (surge - 1) * 100 * n.den
\* n is occupancy clamped to [0, 100]
IsOccupancy(n, occupancy) ==
  IF occupancy <= 0 THEN Eq(n, Frac(0, 1))
  ELSE IF occupancy >= 100 THEN Eq(n, Frac(100, 1))
  ELSE n.num = occupancy * n.den

\* C20: each normalizer returns a value within [0, 100]; the surge maps
\* (surge - 1.0) / 4.0 x 100 clamped (1.0 -> 0, 3.0 -> 50, 5.0 -> 100), traffic
\* and foot map value / historicalMax x 100 clamped and give 0 whenever
\* historicalMax <= 0, the garage occupancy is passed through clamped.
C20_Normalizers ==
  calc.normalized # Null =>
    LET n == calc.normalized[1]
        in == calc.inputs
    IN /\ in.uberSurge # Null =>
            /\ InRange(n.uber[1])
            /\ IsSurge(n.uber[1], in.uberSurge[1])
            /\ in.uberSurge[1] = 1 => Eq(n.uber[1], Frac(0, 1))
            /\ in.uberSurge[1] = 3 => Eq(n.uber[1], Frac(50, 1))
            /\ in.uberSurge[1] = 5 => Eq(n.uber[1], Frac(100, 1))
       /\ in.trafficFlow # Null =>
            /\ InRange(n.traffic[1])
            /\ IsRatio(n.traffic[1], in.trafficFlow[1], calc.trafficHistoricalMax)
       /\ in.footTrafficCount # Null =>
            /\ InRange(n.foot[1])
            /\ IsRatio(n.foot[1], in.footTrafficCount[1], calc.footHistoricalMax)
       /\ in.garageOccupancy # Null =>
            /\ InRange(n.garage[1])
            /\ IsOccupancy(n.garage[1], in.garageOccupancy[1])

\* C20's case: a surge of 3.0 became 50, a flow over a historical maximum of 0
\* became 0, a count above its maximum became 100 and an occupancy of 130
\* became 100.
C20_Witness ==
  /\ calc.normalized # Null
  /\ calc.inputs.uberSurge = Some(3) /\ Is(calc.normalized[1].uber, 50)
  /\ calc.inputs.trafficFlow = Some(50) /\ calc.trafficHistoricalMax = 0
  /\ Is(calc.normalized[1].traffic, 0)
  /\ calc.inputs.footTrafficCount = Some(150) /\ calc.footHistoricalMax = 100
  /\ Is(calc.normalized[1].foot, 100)
  /\ calc.inputs.garageOccupancy = Some(130) /\ Is(calc.normalized[1].garage, 100)

(***************************************************************************)
(* The state confidence (src/src/algorithms/stateConfidence.ts): the tier  *)
(* of a venue's state, by the age of its timestamp.  Times are in          *)
(* milliseconds.                                                           *)
(***************************************************************************)
THRESHOLDS ==
  [LIVE |-> 5 * 60 * 1000, RECENT |-> 30 * 60 * 1000, STALE |-> 60 * 60 * 1000]

\* Mutant: the thresholds belong to the fresher tier (<= instead of <).
calculateStateConfidence_inclusive(stateTimestamp, currentTime) ==
  LET age == currentTime - stateTimestamp
  IN IF age <= THRESHOLDS.LIVE THEN "live"
     ELSE IF age <= THRESHOLDS.RECENT THEN "recent"
     ELSE IF age <= THRESHOLDS.STALE THEN "stale"
     ELSE "historical"

\* Mutant: the age is taken with the wrong sign.
calculateStateConfidence_flippedAge(stateTimestamp, currentTime) ==
  LET age == stateTimestamp - currentTime
  IN IF age < THRESHOLDS.LIVE THEN "live"
     ELSE IF age < THRESHOLDS.RECENT THEN "recent"
     ELSE IF age < THRESHOLDS.STALE THEN "stale"
     ELSE "historical"

calculateStateConfidence(stateTimestamp, currentTime) ==
  LET age == currentTime - stateTimestamp
  IN IF age < THRESHOLDS.LIVE THEN "live"
     ELSE IF age < THRESHOLDS.RECENT THEN "recent"
     ELSE IF age < THRESHOLDS.STALE THEN "stale"
     ELSE "historical"

\* The ages the tier is evaluated at: one millisecond before, at and after each
\* threshold, and the ages of the unit tests (4, 15, 45, 90 min).
Ages ==
  UNION {{m * 60 * 1000 - 1, m * 60 * 1000, m * 60 * 1000 + 1} : m \in {0, 5, 30, 60}}
    \cup {m * 60 * 1000 : m \in {4, 15, 45, 90}}
\* The timestamps of the venue state: the last one lies in the future of the
\* early evaluations.
Timestamps == {0, 1000, 30 * 60 * 1000}
\* The times the tier is evaluated at.
CurrentTimes == {ts + a : ts \in {0, 1000}, a \in Ages}

ConfidenceInit ==
  /\ RtInit
  /\ calc \in [fn : {"confidence"}, stateTimestamp : Timestamps,
                currentTime : {-1}, previous : {"none"}, confidence : {"none"}]

\* The tier is evaluated at currentTime, not earlier than the evaluation before.
CalculateStateConfidence(currentTime) ==
  /\ currentTime >= calc.currentTime
  /\ calc' = [calc EXCEPT
                !.currentTime = currentTime,
                !.previous = calc.confidence,
                !.confidence = calculateStateConfidence(calc.stateTimestamp, currentTime)]
  /\ UNCHANGED rtVars

ConfidenceNext == \E t \in CurrentTimes : CalculateStateConfidence(t)

ConfidenceSpec == ConfidenceInit /\ [][ConfidenceNext]_vars

\* C21: the tier is live for age < 5 min, recent for 5 min <= age < 30 min,
\* stale for 30 min <= age < 60 min and historical for age >= 60 min, the age
\* being currentTime - stateTimestamp in milliseconds.
C21_Bands ==
  calc.confidence # "none" =>
    LET age == calc.currentTime - calc.stateTimestamp
    IN /\ (calc.confidence = "live") <=> (age < 300000)
       /\ (calc.confidence = "recent") <=> (300000 <= age /\ age < 1800000)
       /\ (calc.confidence = "stale") <=> (1800000 <= age /\ age < 3600000)
       /\ (calc.confidence = "historical") <=> (age >= 3600000)

\* C21's case: an age of exactly 30 minutes is stale.
C21_Witness ==
  /\ calc.confidence = "stale"
  /\ calc.currentTime - calc.stateTimestamp = 1800000

\* The order of the tiers, freshest first.
TierRank(tier) ==
  CASE tier = "live" -> 1 [] tier = "recent" -> 2 [] tier = "stale" -> 3
    [] tier = "historical" -> 4

\* C22: for a fixed stateTimestamp the tier evaluated at a later time is never
\* fresher than the tier evaluated at an earlier time.
C22_MonotonicInAge ==
  (calc.previous # "none" /\ calc.confidence # "none") =>
    TierRank(calc.previous) <= TierRank(calc.confidence)

\* C22's case: the tier was live at the earlier evaluation and is historical at
\* the later one.
C22_Witness ==
  /\ calc.previous = "live"
  /\ calc.confidence = "historical"

(***************************************************************************)
(* The gravity well (src/unnamed/part_005): the visibility radius of a     *)
(* venue and the reduction of two overlapping radii.  Lengths are in       *)
(* metres, as exact fractions.                                             *)
(***************************************************************************)
CONSTRAINTS ==
  [BASE_RADIUS |-> Frac(100, 1), MAX_RADIUS |-> Frac(200, 1),
   MIN_RADIUS |-> Frac(80, 1), AD_BOOST_MAX |-> Frac(40, 1),
   MULTIPLIER |-> Frac(5, 2), ANCHOR_BONUS |-> Frac(6, 5)]

\* Math.min, Math.max, x - y and x / y (y > 0) for finite numbers
MathMin(x, y) == IF Leq(x, y) THEN x ELSE y
MathMax(x, y) == IF Leq(x, y) THEN y ELSE x
Minus(x, y) == Plus(x, Frac(-y.num, y.den))
Over(x, y) == Times(x, Frac(y.den, y.num))
Less(x, y) == ~Leq(y, x)

\* Mutant: the boost is not clamped to [0, AD_BOOST_MAX].
calculateEffectiveRadius_noBoostCap(adBoost, isAnchor) ==
  LET cappedBoost == Frac(adBoost, 1)
      baseRadius == IF isAnchor
                    THEN Times(CONSTRAINTS.BASE_RADIUS, CONSTRAINTS.ANCHOR_BONUS)
                    ELSE CONSTRAINTS.BASE_RADIUS
      boostContribution == Times(cappedBoost, CONSTRAINTS.MULTIPLIER)
      uncappedRadius == Plus(baseRadius, boostContribution)
      effectiveRadius == MathMin(uncappedRadius, CONSTRAINTS.MAX_RADIUS)
      finalRadius == MathMax(effectiveRadius, CONSTRAINTS.MIN_RADIUS)
  IN [effectiveRadius |-> finalRadius, baseRadius |-> baseRadius,
      boostContribution |-> boostContribution,
      wasCapped |-> Less(CONSTRAINTS.MAX_RADIUS, uncappedRadius)]

calculateEffectiveRadius(adBoost, isAnchor) ==
  LET cappedBoost == MathMin(MathMax(Frac(0, 1), Frac(adBoost, 1)),
                             CONSTRAINTS.AD_BOOST_MAX)
      baseRadius == IF isAnchor
                    THEN Times(CONSTRAINTS.BASE_RADIUS, CONSTRAINTS.ANCHOR_BONUS)
                    ELSE CONSTRAINTS.BASE_RADIUS
      boostContribution == Times(cappedBoost, CONSTRAINTS.MULTIPLIER)
      uncappedRadius == Plus(baseRadius, boostContribution)
      effectiveRadius == MathMin(uncappedRadius, CONSTRAINTS.MAX_RADIUS)
      finalRadius == MathMax(effectiveRadius, CONSTRAINTS.MIN_RADIUS)
  IN [effectiveRadius |-> finalRadius, baseRadius |-> baseRadius,
      boostContribution |-> boostContribution,
      wasCapped |-> Less(CONSTRAINTS.MAX_RADIUS, uncappedRadius)]

\* Mutant: the reduced radii are not held at MIN_RADIUS.
resolveRadiusOverlap_noFloor(venue1Radius, venue2Radius, distance) ==
  LET totalRadii == Plus(venue1Radius, venue2Radius)
      overlap == Minus(totalRadii, distance)
      smallerRadius == MathMin(venue1Radius, venue2Radius)
      overlapPercentage ==
        Times(Over(overlap, Times(smallerRadius, Frac(2, 1))), Frac(100, 1))
      reductionNeeded == Minus(overlap, smallerRadius)
      ratio1 == Over(venue1Radius, totalRadii)
      ratio2 == Over(venue2Radius, totalRadii)
  IN IF Leq(totalRadii, distance)
     THEN [venue1Radius |-> venue1Radius, venue2Radius |-> venue2Radius,
           overlapPercentage |-> Frac(0, 1), wasReduced |-> FALSE]
     ELSE IF Leq(overlapPercentage, Frac(50, 1))
     THEN [venue1Radius |-> venue1Radius, venue2Radius |-> venue2Radius,
           overlapPercentage |-> overlapPercentage, wasReduced |-> FALSE]
     ELSE [venue1Radius |-> Minus(venue1Radius, Times(reductionNeeded, ratio1)),
           venue2Radius |-> Minus(venue2Radius, Times(reductionNeeded, ratio2)),
           overlapPercentage |-> overlapPercentage, wasReduced |-> TRUE]

resolveRadiusOverlap(venue1Radius, venue2Radius, distance) ==
  LET totalRadii == Plus(venue1Radius, venue2Radius)
      overlap == Minus(totalRadii, distance)
      smallerRadius == MathMin(venue1Radius, venue2Radius)
      overlapPercentage ==
        Times(Over(overlap, Times(smallerRadius, Frac(2, 1))), Frac(100, 1))
      targetOverlap == smallerRadius
      reductionNeeded == Minus(overlap, targetOverlap)
      ratio1 == Over(venue1Radius, totalRadii)
      ratio2 == Over(venue2Radius, totalRadii)
      newVenue1Radius ==
        MathMax(CONSTRAINTS.MIN_RADIUS,
                Minus(venue1Radius, Times(reductionNeeded, ratio1)))
      newVenue2Radius ==
        MathMax(CONSTRAINTS.MIN_RADIUS,
                Minus(venue2Radius, Times(reductionNeeded, ratio2)))
  IN IF Leq(totalRadii, distance)
     THEN [venue1Radius |-> venue1Radius, venue2Radius |-> venue2Radius,
           overlapPercentage |-> Frac(0, 1), wasReduced |-> FALSE]
     ELSE IF Leq(overlapPercentage, Frac(50, 1))
     THEN [venue1Radius |-> venue1Radius, venue2Radius |-> venue2Radius,
           overlapPercentage |-> overlapPercentage, wasReduced |-> FALSE]
     ELSE [venue1Radius |-> newVenue1Radius, venue2Radius |-> newVenue2Radius,
           overlapPercentage |-> overlapPercentage, wasReduced |-> TRUE]

\* The boosts (below 0, inside and above AD_BOOST_MAX) and the distances between
\* the centres of the two venues.
AdBoosts == {-5, 0, 1, 20, 32, 40, 45}
Distances == {0, 50, 100, 150, 250, 300, 400}

GravityInit ==
  /\ RtInit
  /\ calc \in [fn : {"gravity"}, adBoost : [{1, 2} -> AdBoosts],
                isAnchor : [{1, 2} -> BOOLEAN], distance : Distances,
                radius : {[v \in {1, 2} |-> Null]}, resolved : {Null},
                again : {Null}]

\* calculateEffectiveRadius is applied to venue v.
CalculateEffectiveRadius(v) ==
  /\ calc.radius[v] = Null
  /\ calc' = [calc EXCEPT !.radius[v] =
                Some(calculateEffectiveRadius(calc.adBoost[v], calc.isAnchor[v]))]
  /\ UNCHANGED rtVars

\* resolveRadiusOverlap is applied to the two effective radii.
ResolveRadiusOverlap ==
  /\ calc.radius[1] # Null /\ calc.radius[2] # Null
  /\ calc.resolved = Null
  /\ calc' = [calc EXCEPT !.resolved =
                Some(resolveRadiusOverlap(calc.radius[1][1].effectiveRadius,
                                          calc.radius[2][1].effectiveRadius,
                                          Frac(calc.distance, 1)))]
  /\ UNCHANGED rtVars

\* resolveRadiusOverlap is applied to the radii it has just returned.
ResolveAgain ==
  /\ calc.resolved # Null
  /\ calc.again = Null
  /\ calc' = [calc EXCEPT !.again =
                Some(resolveRadiusOverlap(calc.resolved[1].venue1Radius,
                                          calc.resolved[1].venue2Radius,
                                          Frac(calc.distance, 1)))]
  /\ UNCHANGED rtVars

GravityNext ==
  \/ \E v \in {1, 2} : CalculateEffectiveRadius(v)
  \/ ResolveRadiusOverlap
  \/ ResolveAgain

GravitySpec == GravityInit /\ [][GravityNext]_vars

\* The boost held within [0, 40].
ClampedBoost(adBoost) == IF adBoost < 0 THEN 0 ELSE IF adBoost > 40 THEN 40 ELSE adBoost

\* C23: the effective radius is 100m (120m for an anchor) plus 2.5m per point of
\* the boost clamped to [0, 40], capped at 200m, so it lies within [80, 200]
\* for every adBoost; adBoost = 0 without anchor gives 100m and adBoost = 40
\* with anchor gives exactly 200m with wasCapped true.
C23_EffectiveRadius ==
  \A v \in {1, 2} :
    calc.radius[v] # Null =>
      LET r == calc.radius[v][1]
          uncapped2 == (IF calc.isAnchor[v] THEN 240 ELSE 200)
                         + 5 * ClampedBoost(calc.adBoost[v])
      IN /\ Eq(r.effectiveRadius, Frac(IF uncapped2 > 400 THEN 400 ELSE uncapped2, 2))
         /\ Leq(Frac(80, 1), r.effectiveRadius)
         /\ Leq(r.effectiveRadius, Frac(200, 1))
         /\ (calc.adBoost[v] = 0 /\ ~calc.isAnchor[v])
              => Eq(r.effectiveRadius, Frac(100, 1))
         /\ (calc.adBoost[v] = 40 /\ calc.isAnchor[v])
              => (Eq(r.effectiveRadius, Frac(200, 1)) /\ r.wasCapped)

\* C23's case: an anchor with a boost above 40 is capped at 200m.
C23_Witness ==
  /\ calc.radius[1] # Null
  /\ calc.adBoost[1] > 40 /\ calc.isAnchor[1]
  /\ Eq(calc.radius[1][1].effectiveRadius, Frac(200, 1))
  /\ calc.radius[1][1].wasCapped

\* The overlap of two radii at the distance of the evaluation in hand.
OverlapOf(radius1, radius2) == Minus(Plus(radius1, radius2), Frac(calc.distance, 1))
AtFloor(radius) == Eq(radius, Frac(80, 1))

\* C24 (stated as claimed; the code violates it): when the radii were reduced
\* and the 80m floor did not stop the shrinking, the overlap of the returned
\* radii is exactly 50% of twice the smaller returned radius, that is, equal
\* to the smaller returned radius.
C24_ReducedToHalf ==
  calc.resolved # Null =>
    LET r == calc.resolved[1]
    IN (r.wasReduced /\ ~AtFloor(r.venue1Radius) /\ ~AtFloor(r.venue2Radius)) =>
         Eq(OverlapOf(r.venue1Radius, r.venue2Radius),
            MathMin(r.venue1Radius, r.venue2Radius))

\* C25 (stated as claimed; the code violates it): applied to the radii it has
\* just returned, at the same distance, resolveRadiusOverlap returns them
\* unchanged with wasReduced false.
C25_Idempotent ==
  calc.again # Null =>
    /\ Eq(calc.again[1].venue1Radius, calc.resolved[1].venue1Radius)
    /\ Eq(calc.again[1].venue2Radius, calc.resolved[1].venue2Radius)
    /\ ~calc.again[1].wasReduced

\* C26: for radii produced by calculateEffectiveRadius and any distance >= 0,
\* neither returned radius is below the 80m floor and neither is larger than
\* the input radius it comes from.
C26_FloorAndShrink ==
  calc.resolved # Null =>
    LET r == calc.resolved[1]
    IN /\ Leq(Frac(80, 1), r.venue1Radius)
       /\ Leq(Frac(80, 1), r.venue2Radius)
       /\ Leq(r.venue1Radius, calc.radius[1][1].effectiveRadius)
       /\ Leq(r.venue2Radius, calc.radius[2][1].effectiveRadius)

\* C26's case: the proportional reduction would take a radius below 80m and the
\* returned radius is 80m.
C26_Witness ==
  /\ calc.resolved # Null
  /\ calc.resolved[1].wasReduced
  /\ AtFloor(calc.resolved[1].venue1Radius)
  /\ Less(Frac(80, 1), calc.radius[1][1].effectiveRadius)
  /\ calc.distance = 0

(***************************************************************************)
(* The transition debouncer of one venue.  The repository holds no code    *)
(* for it: it is modelled from the state machine the specification gives   *)
(* (last-published bucket, candidate bucket, consecutive-reading counter). *)
(* A confirmed transition is published at once: the batch window and the   *)
(* jitter only delay the broadcast.                                        *)
(***************************************************************************)
\* State 0 (Closed/Empty) .. State 3 (Party)
Buckets == 0..3
\* No candidate yet, no reading yet.
NoBucket == -1
\* Consecutive matching readings that confirm a candidate.
Hysteresis == 2

\* Mutant: one reading of a new bucket confirms it.
DebouncerStep_single(d, bucket) ==
  LET counter == IF bucket = d.candidate THEN d.counter + 1 ELSE 1
      confirmed == counter >= 1 /\ bucket # d.published
  IN [published |-> IF confirmed THEN bucket ELSE d.published,
      candidate |-> bucket,
      counter |-> IF counter > Hysteresis THEN Hysteresis ELSE counter,
      confirmed |-> confirmed]

\* One raw bucket observation: a reading that matches the candidate increments
\* the counter, another one becomes the candidate with counter 1; the transition
\* is confirmed when the counter has reached 2 and the candidate differs from
\* the published bucket.  The counter is not kept beyond 2.
DebouncerStep(d, bucket) ==
  LET counter == IF bucket = d.candidate THEN d.counter + 1 ELSE 1
      confirmed == counter >= Hysteresis /\ bucket # d.published
  IN [published |-> IF confirmed THEN bucket ELSE d.published,
      candidate |-> bucket,
      counter |-> IF counter > Hysteresis THEN Hysteresis ELSE counter,
      confirmed |-> confirmed]

DebounceInit ==
  /\ RtInit
  /\ \E b \in Buckets :
       calc = [fn |-> "debounce",
               debouncer |-> [published |-> b, candidate |-> NoBucket, counter |-> 0,
                              confirmed |-> FALSE],
               initial |-> b, before |-> b, previous |-> NoBucket, last |-> NoBucket,
               alternating |-> TRUE]

\* A raw reading of the venue falls in `bucket`.
OnReading(bucket) ==
  /\ calc' = [calc EXCEPT
                !.debouncer = DebouncerStep(
                                [published |-> calc.debouncer.published,
                                 candidate |-> calc.debouncer.candidate,
                                 counter |-> calc.debouncer.counter], bucket),
                !.before = calc.debouncer.published,
                !.previous = calc.last,
                !.last = bucket,
                !.alternating = calc.alternating /\ bucket # calc.last]
  /\ UNCHANGED rtVars

DebounceNext == \E b \in Buckets : OnReading(b)

DebounceSpec == DebounceInit /\ [][DebounceNext]_vars

\* C27: a transition is confirmed only when the last two readings show the same
\* bucket and that bucket differs from the published one; without a
\* confirmation the published bucket is unchanged, so a single reading of a new
\* bucket changes nothing, and while the readings alternate (no two consecutive
\* readings equal) the published bucket is the initial one.
C27_Hysteresis ==
  /\ calc.debouncer.confirmed =>
       /\ calc.previous = calc.last
       /\ calc.last # calc.before
       /\ calc.debouncer.published = calc.last
  /\ ~calc.debouncer.confirmed => calc.debouncer.published = calc.before
  /\ calc.previous # calc.last => ~calc.debouncer.confirmed
  /\ calc.alternating => calc.debouncer.published = calc.initial

\* C27's case: the second of two equal readings of a bucket other than the
\* published one confirmed the transition.
C27_Witness ==
  /\ calc.debouncer.confirmed
  /\ calc.previous = calc.last
  /\ calc.debouncer.published # calc.before
  /\ ~calc.alternating

(* ------------------------------------- RealtimeService, further claims *)
\* C28 (stated as claimed; the code violates it): when a venue_state message or
\* a sync response has been handled and no callback threw, every registered
\* listener was called exactly once per delta of the message, however many
\* times connect() has run for the hub.
C28_DeliveredExactlyOnce ==
  (lastOp \in {"venue_state", "sync"} /\ ~threw) =>
    \A l \in Listeners :
      InCallbacks(l) => Len(ReceivedBy(l)) = Len(inbound.deltas)

\* C29: whenever the connection state is CONNECTED no polling timer is active;
\* a polling timer is started only by the 'disconnected', 'suspended' and
\* 'failed' handlers, which leave CONNECTED first, and the 'connected' handler
\* and disconnect() leave none running.
C29_NoPollingWhileConnected ==
  /\ [](connectionState = "connected" => (intervals = {} /\ pollingInterval = NoTimer))
  /\ [](lastOp \in {"connected", "disconnect"} => intervals = {})
  /\ [][(intervals' \ intervals # {}) =>
          /\ lastOp' \in {"disconnected", "suspended", "failed"}
          /\ connectionState' # "connected"]_vars

\* C29's case: the 'connected' event arrived while SUSPENDED, where a polling
\* timer was running, and no timer is left.
C29_Witness ==
  /\ connectionState = "connected"
  /\ lastOp = "connected" /\ stateBefore = "suspended"
  /\ intervals = {}

\* C30: 0 <= retryCount <= 5 in every reachable state; the counter changes only
\* by +1 in a 'disconnected' event handled below the ceiling and by a reset to 0
\* in a 'connected' event; 'suspended', 'failed', connect() and disconnect()
\* leave it unchanged.
C30_RetryCounter ==
  /\ [](retryCount \in 0..5)
  /\ [][(lastOp' = "disconnected" /\ retryCount < 5) => (retryCount' = retryCount + 1)]_vars
  /\ [][(lastOp' = "disconnected" /\ retryCount >= 5) => (retryCount' = retryCount)]_vars
  /\ [][(lastOp' = "connected") => (retryCount' = 0)]_vars
  /\ [][(lastOp' \notin {"disconnected", "connected"}) => (retryCount' = retryCount)]_vars

\* C30's case: disconnect() ran with the counter at the ceiling and left it there.
C30_Witness ==
  /\ lastOp = "disconnect"
  /\ retryCount = 5
====
